---- MODULE Spec2Model ----
(***************************************************************************)
(* State-machine model of ncatbot's BasePlugin                             *)
(* (src/ncatbot/plugin/base_plugin.py): construction, the __onload__ and   *)
(* __unload__ lifecycle coroutines, the Func registration entry points and *)
(* the persisted data file handled through UniversalLoader.                *)
(***************************************************************************)
EXTENDS Integers, Sequences, FiniteSets, TLC

\* ------------------------------------------------------------------ bounds
\* number of __onload__ calls the host may make on one instance
MaxLoads == 2
\* number of __unload__ calls the host may make on one instance
MaxUnloads == 2
\* number of _register_func calls each of two concurrent threads may make
MaxRaces == 2

\* ------------------------------------------------------- value universes
\* "no value" of Python (None, or an attribute that was never declared)
None == "None"
\* values the class attribute `name` / `version` may have in a plugin class
IdentityValues == {None, "", "Echo"}
\* values of the class attribute save_type: "json" is the default the loader
\* understands, "xml" stands for a type it does not know
SaveTypes == {"json", "xml"}
KnownTypes == {"json"}
\* the values self.first_load takes: the class attribute is the str "True",
\* __init__ assigns the bools False and True
StrTrue == "'True'"
PyBool(b) == IF b THEN "True" ELSE "False"
\* extra keyword arguments a constructor call may carry (**kwd): none, or a
\* value for one attribute
NoExtra == [k \in {} |-> ""]
ExtraAttributes ==
    {NoExtra, "name" :> "", "name" :> "Bot", "version" :> None, "api" :> "x"}
\* names a Func may be registered under ("default" is the reserved name)
FuncNames == {"default", "ping"}
\* what the permission_raise argument of a registration may be
RaiseFlags == {FALSE, TRUE}
\* what the filter / raw_message_filter argument of a registration may be
FilterValues == {None, "f"}
RawFilterValues == {None, "ping"}
\* PermissionGroup.USER.value / PermissionGroup.ADMIN.value
USER == "USER"
ADMIN == "ADMIN"
PermissionGroups == {USER, ADMIN}
\* PERSISTENT_DIR, the root of every plugin's working directory
PERSISTENT_DIR == "data"
\* names of the directories that hold the source file of a plugin class
PluginDirs == {"echo", "demo"}
\* the threads that can be inside the plugin's code at once: the worker thread
\* asyncio.to_thread runs _init_ on, and the thread of the event loop
Threads == {"worker", "loop"}
\* the two instances that live side by side
Instances == {1, 2}
\* names of the timed tasks a plugin may add to the shared scheduler
TaskNames == {"tick"}
\* keys and values of the persisted key/value tree
Keys == {"k"}
Vals == {"1", "2"}
KeyOrder == <<"k">>

\* ----------------------------------------------------- persisted data tree
\* the in-memory tree of a UniversalLoader: a mapping from keys to values
Trees == UNION {[D -> Vals] : D \in SUBSET Keys}
EmptyTree == [k \in {} |-> "1"]

RECURSIVE DumpFrom(_, _)
\* the key/value tokens of tree t for the keys KeyOrder[i..]
DumpFrom(t, i) ==
    IF i > Len(KeyOrder) THEN <<>>
    ELSE IF KeyOrder[i] \in DOMAIN t
         THEN <<KeyOrder[i], t[KeyOrder[i]]>> \o DumpFrom(t, i + 1)
         ELSE DumpFrom(t, i + 1)

\* serialisation of a tree to the text of the data file (a token sequence)
Dump(t) == <<"{">> \o DumpFrom(t, 1) \o <<"}">>

\* the text between the braces
Body(text) == SubSeq(text, 2, Len(text) - 1)

\* whether the text of a data file parses as a tree
WellFormed(text) ==
    /\ Len(text) >= 2
    /\ text[1] = "{"
    /\ text[Len(text)] = "}"
    /\ Len(Body(text)) % 2 = 0
    /\ \A i \in 1..Len(Body(text)) :
          IF i % 2 = 1 THEN Body(text)[i] \in Keys ELSE Body(text)[i] \in Vals

\* the tree a well-formed text parses to (a repeated key keeps its last value)
Parse(text) ==
    LET b == Body(text)
        ks == {b[i] : i \in {j \in 1..Len(b) : j % 2 = 1}}
        last(k) == CHOOSE i \in 1..Len(b) :
                      /\ i % 2 = 1 /\ b[i] = k
                      /\ \A j \in 1..Len(b) : (j % 2 = 1 /\ b[j] = k) => j <= i
    IN [k \in ks |-> b[last(k) + 1]]

\* a data file: absent, or present with a text
NoFile == [exists |-> FALSE, text |-> <<>>]
FileWith(text) == [exists |-> TRUE, text |-> text]
\* texts the data file may hold before the plugin is constructed: empty,
\* truncated (malformed), or the serialisation of some tree
InitialTexts == {<<>>, <<"{", "k">>} \cup {Dump(t) : t \in Trees}

\* UniversalLoader.load(): outcome of reading `file` of type `type` into a
\* loader whose tree is `tree`
LoaderLoad(file, type, tree) ==
    IF ~file.exists THEN [error |-> "FileNotFoundError", data |-> tree]
    ELSE IF type \notin KnownTypes
         THEN [error |-> "FileTypeUnknownError", data |-> tree]
    ELSE IF ~WellFormed(file.text)
         THEN [error |-> "LoadError", data |-> tree]
    ELSE [error |-> None, data |-> Parse(file.text)]

\* UniversalLoader.save(): outcome of writing `tree` to the data file;
\* canWrite = FALSE means the write cannot complete
LoaderSave(file, type, tree, canWrite) ==
    IF type \notin KnownTypes
    THEN [error |-> "FileTypeUnknownError", file |-> file]
    ELSE IF ~canWrite THEN [error |-> "SaveError", file |-> file]
    ELSE [error |-> None, file |-> FileWith(Dump(tree))]

\* the errors __onload__ and __unload__ catch around load() / save()
LoadErrors == {"FileTypeUnknownError", "LoadError", "FileNotFoundError"}
SaveErrors == {"FileTypeUnknownError", "SaveError", "FileNotFoundError"}

\* ------------------------------------------------------------ Func table
\* a Func entry as _register_func builds it
Func(name, plugin_name, filter, raw_message_filter, permission, permission_raise) ==
    [name |-> name, plugin_name |-> plugin_name, filter |-> filter,
     raw_message_filter |-> raw_message_filter, permission |-> permission,
     permission_raise |-> permission_raise]

\* the names of the entries of a Func table
NamesOf(fs) == {fs[i].name : i \in 1..Len(fs)}

\* _register_func without the check for an existing name
RegisterFuncUnchecked(fs, plugin_name, name, filter, raw_message_filter, permission, permission_raise) ==
    [funcs |-> Append(fs, Func(name, plugin_name, filter, raw_message_filter,
                               permission, permission_raise)),
     error |-> None]

\* _register_func: append a Func unless the name is taken, else ValueError
_register_func(fs, plugin_name, name, filter, raw_message_filter, permission, permission_raise) ==
    IF \A i \in 1..Len(fs) : name # fs[i].name
    THEN [funcs |-> Append(fs, Func(name, plugin_name, filter, raw_message_filter,
                                    permission, permission_raise)),
          error |-> None]
    ELSE [funcs |-> fs, error |-> "ValueError: exists"]

\* the filter check with `or` in place of `and`
NoFilterGivenEither(filter, raw_message_filter) ==
    filter = None \/ raw_message_filter = None

\* the filter check register_user_func and register_admin_func make first
NoFilterGiven(filter, raw_message_filter) ==
    filter = None /\ raw_message_filter = None

\* register_user_func
register_user_func(fs, plugin_name, name, filter, raw_message_filter, permission_raise) ==
    IF NoFilterGiven(filter, raw_message_filter)
    THEN [funcs |-> fs, error |-> "ValueError: no filter"]
    ELSE _register_func(fs, plugin_name, name, filter, raw_message_filter, USER,
                        permission_raise)

\* register_admin_func
register_admin_func(fs, plugin_name, name, filter, raw_message_filter, permission_raise) ==
    IF NoFilterGiven(filter, raw_message_filter)
    THEN [funcs |-> fs, error |-> "ValueError: no filter"]
    ELSE _register_func(fs, plugin_name, name, filter, raw_message_filter, ADMIN,
                        permission_raise)

\* register_default_func
register_default_func(fs, plugin_name, permission) ==
    _register_func(fs, plugin_name, "default", None, None, permission, FALSE)

\* unregister_handlers (EventHandlerMixin): the plugin's Func table after it
unregister_handlers(fs) == <<>>

\* --------------------------------------------------------- __onload__ body
\* a recovery that swallows the errors of its own save and load
RecoverySwallowing(file, type, tree, canWrite) ==
    IF ~canWrite
    THEN [data |-> tree, file |-> file, error |-> None,
          log |-> <<"truncate.fail">>]
    ELSE
      LET emptied == FileWith(<<>>)
          saved == LoaderSave(emptied, type, tree, canWrite)
      IN IF saved.error # None
         THEN [data |-> tree, file |-> saved.file, error |-> None,
               log |-> <<"truncate.ok", "resave.fail">>]
         ELSE
           LET again == LoaderLoad(saved.file, type, tree)
           IN [data |-> again.data, file |-> saved.file, error |-> None,
               log |-> <<"truncate.ok", "resave.ok",
                         IF again.error = None THEN "reload.ok" ELSE "reload.fail">>]

\* the recovery of __onload__ outside debug mode:
\* open(path, "w").write(""); data.save(); data.load().
\* The result is the tree, the file, the error raised (None if none) and the
\* steps taken.
Recovery(file, type, tree, canWrite) ==
    IF ~canWrite
    THEN [data |-> tree, file |-> file, error |-> "OSError",
          log |-> <<"truncate.fail">>]
    ELSE
      LET emptied == FileWith(<<>>)
          saved == LoaderSave(emptied, type, tree, canWrite)
      IN IF saved.error # None
         THEN [data |-> tree, file |-> saved.file, error |-> saved.error,
               log |-> <<"truncate.ok", "resave.fail">>]
         ELSE
           LET again == LoaderLoad(saved.file, type, tree)
           IN IF again.error # None
              THEN [data |-> again.data, file |-> saved.file, error |-> again.error,
                    log |-> <<"truncate.ok", "resave.ok", "reload.fail">>]
              ELSE [data |-> again.data, file |-> saved.file, error |-> None,
                    log |-> <<"truncate.ok", "resave.ok", "reload.ok">>]

\* a persistence part whose debug branch re-raises the load error
OnloadPersistDebugRaises(dbg, file, type, tree, canWrite) ==
    LET first == LoaderLoad(file, type, tree)
    IN IF first.error = None
       THEN [data |-> first.data, file |-> file, error |-> None,
             log |-> <<"load.ok">>]
       ELSE IF dbg \/ first.error \notin LoadErrors
       THEN [data |-> first.data, file |-> file, error |-> first.error,
             log |-> <<"load.fail">>]
       ELSE LET r == Recovery(file, type, first.data, canWrite)
            IN [data |-> r.data, file |-> r.file, error |-> r.error,
                log |-> <<"load.fail">> \o r.log]

\* the persistence part of __onload__ (everything before the first await):
\* data.load(), and on a caught error either nothing (debug) or the recovery.
\* The result is the tree, the file, the error that leaves the coroutine
\* (None if it goes on to the hooks) and the steps taken.
OnloadPersist(dbg, file, type, tree, canWrite) ==
    LET first == LoaderLoad(file, type, tree)
    IN IF first.error = None
       THEN [data |-> first.data, file |-> file, error |-> None,
             log |-> <<"load.ok">>]
       ELSE IF first.error \notin LoadErrors
       THEN [data |-> first.data, file |-> file, error |-> first.error,
             log |-> <<"load.fail">>]
       ELSE IF dbg
       THEN [data |-> first.data, file |-> file, error |-> None,
             log |-> <<"load.fail">>]
       ELSE LET r == Recovery(file, type, first.data, canWrite)
            IN [data |-> r.data, file |-> r.file, error |-> r.error,
                log |-> <<"load.fail">> \o r.log]

\* --------------------------------------------------------- __unload__ tail
\* an __unload__ tail that saves whatever the debug flag says
UnloadPersistAlways(dbg, file, type, tree, canWrite) ==
    LET saved == LoaderSave(file, type, tree, canWrite)
    IN IF saved.error = None
       THEN [file |-> saved.file, error |-> None, log |-> <<"save.ok">>]
       ELSE [file |-> saved.file, error |-> "RuntimeError", log |-> <<"save.fail">>]

\* an __unload__ tail that logs a failed save and returns normally
UnloadPersistSwallowing(dbg, file, type, tree, canWrite) ==
    IF dbg
    THEN [file |-> file, error |-> None, log |-> <<"print">>]
    ELSE LET saved == LoaderSave(file, type, tree, canWrite)
         IN [file |-> saved.file, error |-> None,
             log |-> <<IF saved.error = None THEN "save.ok" ELSE "save.fail">>]

\* the end of __unload__ (after on_close returns): in debug mode the tree is
\* printed and nothing is saved, otherwise data.save(); a caught save error
\* is re-raised as RuntimeError
UnloadPersist(dbg, file, type, tree, canWrite) ==
    IF dbg
    THEN [file |-> file, error |-> None, log |-> <<"print">>]
    ELSE LET saved == LoaderSave(file, type, tree, canWrite)
         IN IF saved.error = None
            THEN [file |-> saved.file, error |-> None, log |-> <<"save.ok">>]
            ELSE IF saved.error \in SaveErrors
            THEN [file |-> saved.file, error |-> "RuntimeError",
                  log |-> <<"save.fail">>]
            ELSE [file |-> saved.file, error |-> saved.error,
                  log |-> <<"save.fail">>]

\* ------------------------------------------------------------------ state
VARIABLES
    name,          \* attribute name (of the class, then of the instance)
    version,       \* attribute version (of the class, then of the instance)
    save_type,     \* class attribute save_type
    debug,         \* self._debug
    work_path,     \* what is at self._work_path: "absent", "dir" or "file"
    data_file,     \* the file at self._data_path
    writable,      \* whether writes to self._data_path can complete
    first_load,    \* self.first_load: StrTrue, or PyBool of a bool
    data,          \* self.data.data, the in-memory tree
    funcs,         \* self.funcs, the Func table
    pc,            \* where the instance is: "new", "failed", "idle", or the
                   \* hook a lifecycle coroutine is awaiting
    call,          \* the lifecycle call in progress, or the last one made
    steps,         \* the steps that call has taken so far, in order
    result,        \* how that call ended: "pending", "ok" or the error raised
    calls,         \* how many __onload__ / __unload__ calls the host has made
    everLoaded,    \* some __onload__ call has returned normally
    everUnloaded,  \* some __unload__ call has returned normally
    dataAtCall,    \* the in-memory tree when the latest __onload__ was called
    lastReg,       \* entry point and outcome of the latest registration call
    lastDispatch,  \* when the event bus last dispatched to one of the Funcs
    regInUnload,   \* a Func was registered since the current __unload__ began
    scheduled,     \* the plugin's timed tasks now in the shared scheduler
    schedInUnload, \* a timed task was added since the latest __unload__ began
    peer_class,    \* two instances side by side: the source directory of the
                   \* plugin class each is an instance of
    peer_path,     \* their self._data_path (None until constructed)
    peer_data,     \* their self.data.data
    peer_funcs,    \* their self.funcs
    peer_pc,       \* where each is: "idle", or the close hook its __unload__
                   \* is awaiting
    disk,          \* the files under the persistent directory, by path
    racers         \* two threads inside _register_func: where each one is

vars == <<name, version, save_type, debug, work_path, data_file, writable, first_load,
          data, funcs, pc, call, steps, result, calls, everLoaded, everUnloaded, dataAtCall,
          lastReg, lastDispatch, regInUnload, scheduled, schedInUnload,
          peer_class, peer_path, peer_data, peer_funcs, peer_pc, disk, racers>>

\* the variables of the two instances side by side
peers == <<peer_class, peer_path, peer_data, peer_funcs, peer_pc, disk>>

\* variables of the class and of the construction, fixed once constructed
identity == <<name, version, save_type, debug, work_path, writable, first_load>>

\* the variables of the one instance
solo == <<identity, data_file, data, funcs, pc, call, steps, result, calls, everLoaded,
          everUnloaded, dataAtCall, lastReg, lastDispatch, regInUnload>>

\* variables the lifecycle of the one instance leaves alone
aside == <<scheduled, peers, racers>>

\* hooks of the plugin: user code runs while pc is one of these
InitHooks == {"_init_", "on_load"}
CloseHooks == {"_close_", "on_close"}
Hooks == InitHooks \cup CloseHooks

NoReg == [entry |-> None, error |-> None]

\* ------------------------------------------------------------------- Init
\* the part of the initial state that does not depend on the plugin class
\* and the persistent directory: no instance constructed yet
Fresh ==
    /\ debug = FALSE
    /\ first_load = StrTrue
    /\ data = EmptyTree
    /\ funcs = <<>>
    /\ pc = "new"
    /\ call = None
    /\ steps = <<>>
    /\ result = None
    /\ calls = [c \in {"__onload__", "__unload__"} |-> 0]
    /\ everLoaded = FALSE
    /\ everUnloaded = FALSE
    /\ dataAtCall = EmptyTree
    /\ lastReg = NoReg
    /\ lastDispatch = None
    /\ regInUnload = FALSE

\* the shared scheduler holds no task of the plugin, and neither the two
\* instances side by side nor the two racing threads are in play
Alone ==
    /\ scheduled = {}
    /\ schedInUnload = FALSE
    /\ peer_class = <<None, None>>
    /\ peer_path = <<None, None>>
    /\ peer_data = <<EmptyTree, EmptyTree>>
    /\ peer_funcs = << <<>>, <<>> >>
    /\ peer_pc = <<"idle", "idle">>
    /\ disk = <<>>
    /\ racers = <<>>

\* a plugin class (its name, version and save_type attributes) and a
\* persistent directory in some state
Init ==
    /\ name \in IdentityValues
    /\ version \in IdentityValues
    /\ save_type \in SaveTypes
    /\ work_path \in {"absent", "dir", "file"}
    /\ data_file \in {NoFile} \cup
          (IF work_path = "dir" THEN {FileWith(t) : t \in InitialTexts} ELSE {})
    /\ writable \in BOOLEAN
    /\ Fresh
    /\ Alone

\* ------------------------------------------------------------ __init__
\* `not getattr(self, attr, None)`: the attribute is absent or empty
Missing(v) == v \in {None, ""}

\* the value of an attribute after `for k, v in kwd.items(): setattr(self, k, v)`
WithExtra(kw, attr, v) == IF attr \in DOMAIN kw THEN kw[attr] ELSE v

\* first_load without the test for the data file
FirstLoadDirOnly(wp, file) == wp = "absent"

\* self.first_load: the working directory did not exist (and is made), or it
\* did and the data file does not
FirstLoad(wp, file) == wp = "absent" \/ ~file.exists

\* an __init__ that makes the working directory before it checks the identity
ConstructMkdirFirst(dbg, kw) ==
    /\ pc = "new"
    /\ call' = "__init__"
    /\ steps' = <<>>
    /\ work_path' = IF work_path = "absent" THEN "dir" ELSE work_path
    /\ UNCHANGED <<save_type, data_file, writable, funcs, calls,
                   everLoaded, everUnloaded, dataAtCall, lastReg, lastDispatch, regInUnload,
                   aside, schedInUnload>>
    /\ IF Missing(name) \/ Missing(version)
       THEN /\ result' = "ValueError"
            /\ pc' = "failed"
            /\ UNCHANGED <<name, version, debug, first_load, data>>
       ELSE /\ name' = WithExtra(kw, "name", name)
            /\ version' = WithExtra(kw, "version", version)
            /\ debug' = dbg
            /\ first_load' = PyBool(FirstLoad(work_path, data_file))
            /\ IF work_path = "file"
               THEN /\ result' = "PluginLoadError"
                    /\ pc' = "failed"
                    /\ UNCHANGED data
               ELSE /\ result' = "ok"
                    /\ pc' = "idle"
                    /\ data' = EmptyTree

\* __init__: the outcome of a constructor call with the given debug flag and
\* extra keyword arguments: the identity check, the extra attributes set on
\* the instance, the working directory (made if absent), the first_load flag,
\* the is-a-directory check, and a loader with an empty tree
Construct(dbg, kw) ==
    /\ pc = "new"
    /\ call' = "__init__"
    /\ steps' = <<>>
    /\ UNCHANGED <<save_type, data_file, writable, funcs, calls,
                   everLoaded, everUnloaded, dataAtCall, lastReg, lastDispatch, regInUnload,
                   aside, schedInUnload>>
    /\ IF Missing(name) \/ Missing(version)
       THEN /\ result' = "ValueError"
            /\ pc' = "failed"
            /\ UNCHANGED <<name, version, debug, work_path, first_load, data>>
       ELSE /\ name' = WithExtra(kw, "name", name)
            /\ version' = WithExtra(kw, "version", version)
            /\ debug' = dbg
            /\ work_path' = IF work_path = "absent" THEN "dir" ELSE work_path
            /\ first_load' = PyBool(FirstLoad(work_path, data_file))
            /\ IF work_path = "file"
               THEN /\ result' = "PluginLoadError"
                    /\ pc' = "failed"
                    /\ UNCHANGED data
               ELSE /\ result' = "ok"
                    /\ pc' = "idle"
                    /\ data' = EmptyTree

\* ------------------------------------------------------------ __onload__
\* an __onload__ that starts _init_ on the worker thread before it loads the
\* data
LoadHookFirst ==
    /\ pc = "idle"
    /\ calls["__onload__"] < MaxLoads
    /\ LET r == OnloadPersist(debug, data_file, save_type, data, writable)
       IN   /\ data' = r.data
            /\ data_file' = r.file
            /\ steps' = <<"_init_.start">> \o r.log
            /\ IF r.error = None
               THEN /\ pc' = "_init_"
                    /\ result' = "pending"
               ELSE /\ pc' = "idle"
                    /\ result' = r.error
    /\ call' = "__onload__"
    /\ calls' = [calls EXCEPT !["__onload__"] = @ + 1]
    /\ dataAtCall' = data
    /\ UNCHANGED <<identity, aside, schedInUnload, funcs, everLoaded, everUnloaded, lastReg,
                   lastDispatch, regInUnload>>

\* the host calls __onload__: the persistence part runs, and unless it raised
\* the coroutine awaits _init_ on a worker thread. (self.data is the
\* UniversalLoader __init__ made, never a plain dict or list, so the
\* isinstance branch that opens __onload__ is not taken.)
Load ==
    /\ pc = "idle"
    /\ calls["__onload__"] < MaxLoads
    /\ LET r == OnloadPersist(debug, data_file, save_type, data, writable)
       IN   /\ data' = r.data
            /\ data_file' = r.file
            /\ IF r.error = None
               THEN /\ pc' = "_init_"
                    /\ result' = "pending"
                    /\ steps' = r.log \o <<"_init_.start">>
               ELSE /\ pc' = "idle"
                    /\ result' = r.error
                    /\ steps' = r.log
    /\ call' = "__onload__"
    /\ calls' = [calls EXCEPT !["__onload__"] = @ + 1]
    /\ dataAtCall' = data
    /\ UNCHANGED <<identity, aside, schedInUnload, funcs, everLoaded, everUnloaded, lastReg, lastDispatch, regInUnload>>

\* _init_ returns on the worker thread: the coroutine awaits on_load
InitReturn ==
    /\ pc = "_init_"
    /\ pc' = "on_load"
    /\ steps' = steps \o <<"_init_.end", "on_load.start">>
    /\ UNCHANGED <<identity, aside, schedInUnload, data_file, data, funcs, call, result, calls,
                   everLoaded, everUnloaded, dataAtCall, lastReg, lastDispatch, regInUnload>>

\* on_load returns: __onload__ returns to the host
OnLoadReturn ==
    /\ pc = "on_load"
    /\ pc' = "idle"
    /\ steps' = steps \o <<"on_load.end">>
    /\ result' = "ok"
    /\ everLoaded' = TRUE
    /\ UNCHANGED <<identity, aside, schedInUnload, data_file, data, funcs, call, calls, everUnloaded, dataAtCall,
                   lastReg, lastDispatch, regInUnload>>

\* ------------------------------------------------------------ __unload__
\* an __unload__ that starts the close hook and leaves unregister_handlers()
\* for later
UnloadHookFirst ==
    /\ pc = "idle"
    /\ calls["__unload__"] < MaxUnloads
    /\ pc' = "_close_"
    /\ call' = "__unload__"
    /\ result' = "pending"
    /\ steps' = <<"_close_.start">>
    /\ calls' = [calls EXCEPT !["__unload__"] = @ + 1]
    /\ regInUnload' = FALSE
    /\ schedInUnload' = FALSE
    /\ UNCHANGED <<identity, aside, data_file, data, funcs, everLoaded, everUnloaded, dataAtCall,
                   lastReg, lastDispatch>>

\* an __unload__ whose unregister_handlers() call leaves self.funcs alone
UnloadKeepingFuncs ==
    /\ pc = "idle"
    /\ calls["__unload__"] < MaxUnloads
    /\ pc' = "_close_"
    /\ call' = "__unload__"
    /\ result' = "pending"
    /\ steps' = <<"unregister_handlers", "_close_.start">>
    /\ calls' = [calls EXCEPT !["__unload__"] = @ + 1]
    /\ regInUnload' = FALSE
    /\ schedInUnload' = FALSE
    /\ UNCHANGED <<identity, aside, data_file, data, funcs, everLoaded, everUnloaded, dataAtCall,
                   lastReg, lastDispatch>>

\* the host calls __unload__: unregister_handlers() runs, then the coroutine
\* awaits _close_ on a worker thread
Unload ==
    /\ pc = "idle"
    /\ calls["__unload__"] < MaxUnloads
    /\ funcs' = unregister_handlers(funcs)
    /\ pc' = "_close_"
    /\ call' = "__unload__"
    /\ result' = "pending"
    /\ steps' = <<"unregister_handlers", "_close_.start">>
    /\ calls' = [calls EXCEPT !["__unload__"] = @ + 1]
    /\ regInUnload' = FALSE
    /\ schedInUnload' = FALSE
    /\ UNCHANGED <<identity, aside, data_file, data, everLoaded, everUnloaded, dataAtCall, lastReg,
                   lastDispatch>>

\* _close_ returns on the worker thread: the coroutine awaits on_close
CloseReturn ==
    /\ pc = "_close_"
    /\ pc' = "on_close"
    /\ steps' = steps \o <<"_close_.end", "on_close.start">>
    /\ UNCHANGED <<identity, aside, schedInUnload, data_file, data, funcs, call, result, calls,
                   everLoaded, everUnloaded, dataAtCall, lastReg, lastDispatch, regInUnload>>

\* on_close returns: the tail of __unload__ runs and __unload__ ends
OnCloseReturn ==
    /\ pc = "on_close"
    /\ LET r == UnloadPersist(debug, data_file, save_type, data, writable)
       IN   /\ data_file' = r.file
            /\ result' = IF r.error = None THEN "ok" ELSE r.error
            /\ steps' = steps \o <<"on_close.end">> \o r.log
            /\ everUnloaded' = (everUnloaded \/ r.error = None)
    /\ pc' = "idle"
    /\ UNCHANGED <<identity, aside, schedInUnload, data, funcs, call, calls, everLoaded, dataAtCall,
                   lastReg, lastDispatch, regInUnload>>

\* a hook raises and the lifecycle coroutine goes on to its tail all the
\* same (as if the awaits were wrapped in try/finally)
HookRaiseThenSave ==
    /\ pc \in Hooks
    /\ pc' = "idle"
    /\ result' = "HookError"
    /\ LET r == UnloadPersist(debug, data_file, save_type, data, writable)
       IN IF pc \in CloseHooks
          THEN /\ data_file' = r.file
               /\ steps' = Append(steps, "raise") \o r.log
          ELSE /\ data_file' = data_file
               /\ steps' = Append(steps, "raise")
    /\ UNCHANGED <<identity, aside, schedInUnload, data, funcs, call, calls, everLoaded,
                   everUnloaded, dataAtCall, lastReg, lastDispatch, regInUnload>>

\* a hook raises: the exception leaves the lifecycle coroutine at its await
HookRaise ==
    /\ pc \in Hooks
    /\ pc' = "idle"
    /\ result' = "HookError"
    /\ steps' = Append(steps, "raise")
    /\ UNCHANGED <<identity, aside, schedInUnload, data_file, data, funcs, call, calls, everLoaded, everUnloaded,
                   dataAtCall, lastReg, lastDispatch, regInUnload>>

\* ------------------------------------------------------------- user code
\* plugin code can be running: inside a hook, or (from a handler or a timed
\* task) once a load has completed
UserCodeRuns == pc \in Hooks \/ (pc = "idle" /\ everLoaded)

\* the bookkeeping every registration call shares
Registered(entry, r) ==
    /\ UserCodeRuns
    /\ funcs' = r.funcs
    /\ lastReg' = [entry |-> entry, error |-> r.error]
    /\ regInUnload' = (regInUnload \/ (pc \in CloseHooks /\ r.error = None))
    /\ UNCHANGED <<identity, aside, schedInUnload, data_file, data, pc, call, steps, result, calls,
                   everLoaded, everUnloaded, dataAtCall, lastDispatch>>

\* plugin code calls register_user_func(n, handler, f, rf, pr)
RegisterUserFunc(n, f, rf, pr) ==
    Registered("register_user_func", register_user_func(funcs, name, n, f, rf, pr))

\* plugin code calls register_admin_func(n, handler, f, rf, pr)
RegisterAdminFunc(n, f, rf, pr) ==
    Registered("register_admin_func", register_admin_func(funcs, name, n, f, rf, pr))

\* plugin code calls register_default_func(handler, p)
RegisterDefaultFunc(p) ==
    Registered("register_default_func", register_default_func(funcs, name, p))

\* plugin code calls the primitive _register_func(n, handler, f, rf, p, pr)
RegisterFunc(n, f, rf, p, pr) ==
    Registered("_register_func", _register_func(funcs, name, n, f, rf, p, pr))

\* plugin code stores a value in the data tree: self.data[k] = v
SetData(k, v) ==
    /\ UserCodeRuns
    /\ data' = [x \in DOMAIN data \cup {k} |-> IF x = k THEN v ELSE data[x]]
    /\ UNCHANGED <<identity, aside, schedInUnload, data_file, funcs, pc, call, steps, result, calls,
                   everLoaded, everUnloaded, dataAtCall, lastReg, lastDispatch, regInUnload>>

\* ------------------------------------------------ two instances side by side
\* self._work_path: the persistent directory joined with the name of the
\* directory of the file that defines the plugin class
work_path_of(dir) == <<PERSISTENT_DIR, dir>>

\* self._data_path: the working directory joined with "{dir}.{save_type}"
data_path_of(dir, type) == work_path_of(dir) \o << <<dir, type>> >>

\* the data paths instances of the plugin classes can have
DataPaths == {data_path_of(d, t) : d \in PluginDirs, t \in SaveTypes}

\* a constructor call makes instance i: its paths come from the directory of
\* its class, its loader starts with an empty tree
PeerConstruct(i) ==
    /\ peer_path[i] = None
    /\ peer_path' = [peer_path EXCEPT ![i] = data_path_of(peer_class[i], save_type)]
    /\ peer_data' = [peer_data EXCEPT ![i] = EmptyTree]
    /\ UNCHANGED <<solo, scheduled, schedInUnload, racers, peer_class, peer_funcs, peer_pc,
                   disk>>

\* __onload__ of instance i (outside debug mode, hooks left as the no-ops of
\* BasePlugin): everything it changes, it changes before its first await
PeerLoad(i) ==
    /\ peer_path[i] # None
    /\ peer_pc[i] = "idle"
    /\ LET r == OnloadPersist(FALSE, disk[peer_path[i]], save_type, peer_data[i], TRUE)
       IN   /\ peer_data' = [peer_data EXCEPT ![i] = r.data]
            /\ disk' = [disk EXCEPT ![peer_path[i]] = r.file]
    /\ UNCHANGED <<solo, scheduled, schedInUnload, racers, peer_class, peer_path, peer_funcs,
                   peer_pc>>

\* code of instance i stores a value in its data tree
PeerSetData(i, k, v) ==
    /\ peer_path[i] # None
    /\ peer_data' = [peer_data EXCEPT ![i] =
                        [x \in DOMAIN @ \cup {k} |-> IF x = k THEN v ELSE @[x]]]
    /\ UNCHANGED <<solo, scheduled, schedInUnload, racers, peer_class, peer_path, peer_funcs,
                   peer_pc, disk>>

\* code of instance i calls register_default_func (each instance has a Func
\* table of its own)
PeerRegister(i) ==
    /\ peer_path[i] # None
    /\ peer_funcs' = [peer_funcs EXCEPT ![i] =
                         register_default_func(@, name, USER).funcs]
    /\ UNCHANGED <<solo, scheduled, schedInUnload, racers, peer_class, peer_path, peer_data,
                   peer_pc, disk>>

\* __unload__ of instance i is called: unregister_handlers() runs, then the
\* coroutine is suspended awaiting _close_ on a worker thread
PeerUnload(i) ==
    /\ peer_path[i] # None
    /\ peer_pc[i] = "idle"
    /\ peer_funcs' = [peer_funcs EXCEPT ![i] = unregister_handlers(@)]
    /\ peer_pc' = [peer_pc EXCEPT ![i] = "_close_"]
    /\ UNCHANGED <<solo, scheduled, schedInUnload, racers, peer_class, peer_path, peer_data,
                   disk>>

\* _close_ of instance i returns: its __unload__ is suspended awaiting
\* on_close
PeerCloseReturn(i) ==
    /\ peer_pc[i] = "_close_"
    /\ peer_pc' = [peer_pc EXCEPT ![i] = "on_close"]
    /\ UNCHANGED <<solo, scheduled, schedInUnload, racers, peer_class, peer_path, peer_data,
                   peer_funcs, disk>>

\* on_close of instance i returns: outside debug mode the tree as it is now
\* is saved, and __unload__ ends
PeerOnCloseReturn(i) ==
    /\ peer_pc[i] = "on_close"
    /\ peer_pc' = [peer_pc EXCEPT ![i] = "idle"]
    /\ LET r == UnloadPersist(FALSE, disk[peer_path[i]], save_type, peer_data[i], TRUE)
       IN disk' = [disk EXCEPT ![peer_path[i]] = r.file]
    /\ UNCHANGED <<solo, scheduled, schedInUnload, racers, peer_class, peer_path, peer_data,
                   peer_funcs>>

\* ------------------------------------------- _register_func on two threads
\* a thread that is not inside _register_func and has made c calls of it,
\* the latest for name n with outcome o
Outside(c, n, o) == [at |-> "out", calls |-> c, name |-> n, free |-> FALSE, outcome |-> o]

\* thread t enters _register_func(n, handler, None, "ping") and evaluates
\* `all([name != var.name for var in self.funcs])`. Nothing in the method (or
\* in the class) acquires self.lock, so the other thread may run before t
\* goes on.
RaceCheck(t, n) ==
    /\ pc = "_init_"
    /\ racers[t].at = "out"
    /\ racers[t].calls < MaxRaces
    /\ racers' = [racers EXCEPT ![t] =
                    [at |-> "checked", calls |-> @.calls + 1, name |-> n,
                     free |-> (\A i \in 1..Len(funcs) : n # funcs[i].name),
                     outcome |-> None]]
    /\ UNCHANGED <<identity, data_file, data, funcs, pc, call, steps, result, calls,
                   everLoaded, everUnloaded, dataAtCall, lastReg, lastDispatch, regInUnload,
                   scheduled, schedInUnload, peers>>

\* thread t acts on what its check found: self.funcs.append(Func(...)) if
\* the name was free, else ValueError
RaceAct(t) ==
    /\ pc = "_init_"
    /\ racers[t].at = "checked"
    /\ IF racers[t].free
       THEN /\ funcs' = Append(funcs, Func(racers[t].name, name, None, "ping", USER, FALSE))
            /\ racers' = [racers EXCEPT ![t] = Outside(@.calls, @.name, "ok")]
       ELSE /\ funcs' = funcs
            /\ racers' = [racers EXCEPT ![t] = Outside(@.calls, @.name, "ValueError: exists")]
    /\ UNCHANGED <<identity, data_file, data, pc, call, steps, result, calls,
                   everLoaded, everUnloaded, dataAtCall, lastReg, lastDispatch, regInUnload,
                   scheduled, schedInUnload, peers>>

\* ------------------------------------------------------------ scheduler
\* plugin code calls add_scheduled_task (SchedulerMixin): the task goes into
\* the shared scheduler under the plugin's identity
AddScheduledTask(t) ==
    /\ UserCodeRuns
    /\ t \notin scheduled
    /\ scheduled' = scheduled \cup {t}
    /\ schedInUnload' = (schedInUnload \/ call = "__unload__")
    /\ UNCHANGED <<identity, peers, racers, data_file, data, funcs, pc, call, steps, result,
                   calls, everLoaded, everUnloaded, dataAtCall, lastReg, lastDispatch,
                   regInUnload>>

\* plugin code calls remove_scheduled_task (SchedulerMixin)
RemoveScheduledTask(t) ==
    /\ UserCodeRuns
    /\ t \in scheduled
    /\ scheduled' = scheduled \ {t}
    /\ UNCHANGED <<identity, peers, racers, schedInUnload, data_file, data, funcs, pc, call,
                   steps, result, calls, everLoaded, everUnloaded, dataAtCall, lastReg,
                   lastDispatch, regInUnload>>

\* ------------------------------------------------------------ event bus
\* the event bus delivers a message to one of the Funcs now in the table
Dispatch ==
    /\ pc \notin {"new", "failed"}
    /\ \E i \in 1..Len(funcs) :
         lastDispatch' = IF everLoaded THEN "after_loaded" ELSE "before_loaded"
    /\ UNCHANGED <<identity, aside, schedInUnload, data_file, data, funcs, pc, call, steps, result,
                   calls, everLoaded, everUnloaded, dataAtCall, lastReg, regInUnload>>

\* ---------------------------------------------------------- specifications
\* the lifecycle of one instance and its persisted data: construction, the
\* __onload__ and __unload__ calls of the host, the hooks (which may change
\* the data tree or raise)
Next ==
    \/ \E dbg \in BOOLEAN : Construct(dbg, NoExtra)
    \/ Load
    \/ InitReturn
    \/ OnLoadReturn
    \/ Unload
    \/ CloseReturn
    \/ OnCloseReturn
    \/ HookRaise
    \/ \E k \in Keys, v \in Vals : SetData(k, v)

Spec == Init /\ [][Next]_vars

\* a constructible plugin class over a persistent directory holding an
\* empty saved tree
InitPlain ==
    /\ name = "Echo"
    /\ version = "Echo"
    /\ save_type = "json"
    /\ work_path = "dir"
    /\ data_file = FileWith(Dump(EmptyTree))
    /\ writable = TRUE
    /\ Fresh
    /\ Alone

\* the lifecycle together with the Func table and the event bus: the hooks
\* register Funcs, the bus dispatches to the Funcs in the table
NextBus ==
    \/ \E dbg \in BOOLEAN : Construct(dbg, NoExtra)
    \/ Load
    \/ InitReturn
    \/ OnLoadReturn
    \/ Unload
    \/ CloseReturn
    \/ OnCloseReturn
    \/ HookRaise
    \/ \E n \in FuncNames : RegisterUserFunc(n, None, "ping", FALSE)
    \/ RegisterDefaultFunc(USER)
    \/ Dispatch

SpecBus == InitPlain /\ [][NextBus]_vars

\* an instance that was constructed and whose __onload__ has returned: the
\* state in which handlers and timed tasks of the plugin run
InitLoaded ==
    /\ name = "Echo"
    /\ version = "Echo"
    /\ save_type = "json"
    /\ work_path = "dir"
    /\ data_file = FileWith(Dump(EmptyTree))
    /\ writable = TRUE
    /\ debug = FALSE
    /\ first_load = PyBool(FALSE)
    /\ data = EmptyTree
    /\ funcs = <<>>
    /\ pc = "idle"
    /\ call = "__onload__"
    /\ steps = <<"load.ok", "_init_.start", "_init_.end", "on_load.start", "on_load.end">>
    /\ result = "ok"
    /\ calls = [c \in {"__onload__", "__unload__"} |-> IF c = "__onload__" THEN 1 ELSE 0]
    /\ everLoaded = TRUE
    /\ everUnloaded = FALSE
    /\ dataAtCall = EmptyTree
    /\ lastReg = NoReg
    /\ lastDispatch = None
    /\ regInUnload = FALSE
    /\ Alone

\* the Func table under every registration entry point and every argument
NextReg ==
    \/ \E n \in FuncNames, f \in FilterValues, rf \in RawFilterValues, pr \in RaiseFlags :
          RegisterUserFunc(n, f, rf, pr)
    \/ \E n \in FuncNames, f \in FilterValues, rf \in RawFilterValues, pr \in RaiseFlags :
          RegisterAdminFunc(n, f, rf, pr)
    \/ \E p \in PermissionGroups : RegisterDefaultFunc(p)
    \/ \E n \in FuncNames, f \in FilterValues, rf \in RawFilterValues,
          p \in PermissionGroups, pr \in RaiseFlags : RegisterFunc(n, f, rf, p, pr)

SpecReg == InitLoaded /\ [][NextReg]_vars

\* a constructible plugin class over a persistent directory that is absent,
\* empty, or holds a saved tree
InitUser ==
    /\ name = "Echo"
    /\ version = "Echo"
    /\ save_type = "json"
    /\ work_path \in {"absent", "dir"}
    /\ data_file \in {NoFile} \cup
          (IF work_path = "dir" THEN {FileWith(Dump(t)) : t \in Trees} ELSE {})
    /\ writable = TRUE
    /\ Fresh
    /\ Alone

\* the lifecycle together with what the plugin's own code does from its
\* hooks, handlers and timed tasks: change the data tree, register a Func,
\* add or remove a timed task, raise
NextUser ==
    \/ \E dbg \in BOOLEAN : Construct(dbg, NoExtra)
    \/ Load
    \/ InitReturn
    \/ OnLoadReturn
    \/ Unload
    \/ CloseReturn
    \/ OnCloseReturn
    \/ HookRaise
    \/ \E k \in Keys, v \in Vals : SetData(k, v)
    \/ RegisterDefaultFunc(USER)
    \/ \E t \in TaskNames : AddScheduledTask(t)
    \/ \E t \in TaskNames : RemoveScheduledTask(t)

SpecUser == InitUser /\ [][NextUser]_vars

\* two instances of plugin classes named "Echo" about to be constructed,
\* each class defined in one of the plugin directories, over a persistent
\* directory without data files
InitTwo ==
    /\ name = "Echo"
    /\ version = "Echo"
    /\ save_type = "json"
    /\ work_path = "dir"
    /\ data_file = NoFile
    /\ writable = TRUE
    /\ Fresh
    /\ scheduled = {}
    /\ schedInUnload = FALSE
    /\ racers = <<>>
    /\ peer_class \in {<<a, b>> : a \in PluginDirs, b \in PluginDirs}
    /\ peer_path = <<None, None>>
    /\ peer_data = <<EmptyTree, EmptyTree>>
    /\ peer_funcs = << <<>>, <<>> >>
    /\ peer_pc = <<"idle", "idle">>
    /\ disk = [p \in DataPaths |-> NoFile]

\* the two instances, each constructed, loaded, used and unloaded, the steps
\* of one falling between the awaits of the other's __unload__
NextTwo ==
    \/ \E i \in Instances : PeerConstruct(i)
    \/ \E i \in Instances : PeerLoad(i)
    \/ \E i \in Instances, k \in Keys, v \in Vals : PeerSetData(i, k, v)
    \/ \E i \in Instances : PeerRegister(i)
    \/ \E i \in Instances : PeerUnload(i)
    \/ \E i \in Instances : PeerCloseReturn(i)
    \/ \E i \in Instances : PeerOnCloseReturn(i)

SpecTwo == InitTwo /\ [][NextTwo]_vars

\* an instance whose __onload__ is awaiting _init_ on the worker thread, with
\* neither thread inside _register_func yet
InitRace ==
    /\ name = "Echo"
    /\ version = "Echo"
    /\ save_type = "json"
    /\ work_path = "dir"
    /\ data_file = FileWith(Dump(EmptyTree))
    /\ writable = TRUE
    /\ debug = FALSE
    /\ first_load = PyBool(FALSE)
    /\ data = EmptyTree
    /\ funcs = <<>>
    /\ pc = "_init_"
    /\ call = "__onload__"
    /\ steps = <<"load.ok", "_init_.start">>
    /\ result = "pending"
    /\ calls = [c \in {"__onload__", "__unload__"} |-> IF c = "__onload__" THEN 1 ELSE 0]
    /\ everLoaded = FALSE
    /\ everUnloaded = FALSE
    /\ dataAtCall = EmptyTree
    /\ lastReg = NoReg
    /\ lastDispatch = None
    /\ regInUnload = FALSE
    /\ scheduled = {}
    /\ schedInUnload = FALSE
    /\ peer_class = <<None, None>>
    /\ peer_path = <<None, None>>
    /\ peer_data = <<EmptyTree, EmptyTree>>
    /\ peer_funcs = << <<>>, <<>> >>
    /\ peer_pc = <<"idle", "idle">>
    /\ disk = <<>>
    /\ racers = [t \in Threads |-> Outside(0, None, None)]

\* _init_ on the worker thread and code on the event loop both register
\* Funcs, their steps interleaved as the threads are scheduled
NextRace ==
    \/ \E t \in Threads, n \in FuncNames : RaceCheck(t, n)
    \/ \E t \in Threads : RaceAct(t)

SpecRace == InitRace /\ [][NextRace]_vars

\* every constructor call on every plugin class and persistent directory
NextCons ==
    \E dbg \in BOOLEAN, kw \in ExtraAttributes : Construct(dbg, kw)

SpecCons == Init /\ [][NextCons]_vars

\* ------------------------------------------------------------ properties
\* the elements of a sequence
Range(q) == {q[i] : i \in 1..Len(q)}

\* in the steps of the current call, every occurrence of step b comes after
\* an occurrence of step a
Before(a, b) ==
    \A j \in 1..Len(steps) : steps[j] = b => \E i \in 1..(j - 1) : steps[i] = a

\* no step of the set occurs twice in the steps of the current call
OnceEach(S) ==
    \A i, j \in 1..Len(steps) : (steps[i] \in S /\ steps[i] = steps[j]) => i = j

SaveSteps == {"save.ok", "save.fail"}

\* C1: in every __unload__ the steps come in the order unregistration,
\* _close_ (start to end), on_close (start to end), save; each at most once,
\* none before the one ahead of it has ended, and the save only outside debug
\* mode.
C1_UnloadOrder ==
    call = "__unload__" =>
        /\ steps # <<>> => steps[1] = "unregister_handlers"
        /\ Before("unregister_handlers", "_close_.start")
        /\ Before("_close_.start", "_close_.end")
        /\ Before("_close_.end", "on_close.start")
        /\ Before("on_close.start", "on_close.end")
        /\ \A sv \in SaveSteps : Before("on_close.end", sv)
        /\ OnceEach({"unregister_handlers", "_close_.start", "_close_.end",
                     "on_close.start", "on_close.end"} \cup SaveSteps)
        /\ debug => Range(steps) \cap SaveSteps = {}
        /\ (~debug /\ "on_close.end" \in Range(steps))
              => Range(steps) \cap SaveSteps # {}

\* an __unload__ outside debug mode that ran through to a completed save
C1_Witness ==
    /\ call = "__unload__"
    /\ ~debug
    /\ steps = <<"unregister_handlers", "_close_.start", "_close_.end",
                 "on_close.start", "on_close.end", "save.ok">>

\* C2: while _close_ or on_close runs, the Func table is empty unless a Func
\* was registered after __unload__ began: every Func registered before the
\* call is gone when the close hooks execute.
C2_EmptyInCloseHooks ==
    (pc \in CloseHooks /\ ~regInUnload) => funcs = <<>>

\* the close hook of the first __unload__ runs on an instance that had
\* registered a Func before the call
C2_Witness ==
    /\ pc \in CloseHooks
    /\ ~regInUnload
    /\ calls["__unload__"] = 1
    /\ lastReg.entry = "register_user_func"
    /\ lastReg.error = None
    /\ funcs = <<>>

\* C3: each lifecycle transition takes effect at most once: no init hook
\* runs on an instance whose __onload__ has already completed, and no close
\* hook runs on an instance whose __unload__ has already completed (the
\* repeated call is refused or does nothing).
C3_EachTransitionOnce ==
    /\ ~(pc \in InitHooks /\ everLoaded)
    /\ ~(pc \in CloseHooks /\ everUnloaded)

\* C4: the event bus never dispatches to a Func of the plugin before an
\* __onload__ of the plugin has completed.
C4_NoDispatchBeforeLoaded ==
    lastDispatch # "before_loaded"

\* no two entries of a Func table share a name
UniqueNames(fs) ==
    \A i, j \in 1..Len(fs) : fs[i].name = fs[j].name => i = j

\* the registration call just made was refused as a duplicate and left the
\* Func table as it was
RefusedAsDuplicate ==
    /\ funcs' = funcs
    /\ lastReg'.error = "ValueError: exists"

\* the registration call just made failed the filter check and added nothing
RefusedNoFilter ==
    /\ funcs' = funcs
    /\ lastReg'.error = "ValueError: no filter"

\* the entry point of the registration call just made
Entered(entry) == lastReg'.entry = entry

\* C5 as stated: the names in the Func table are always unique, and a
\* registration under a name already in the table, through any entry point
\* and with any arguments, fails with the duplicate-name error and leaves the
\* table as it was.
C5_DuplicateRefused ==
    /\ [](UniqueNames(funcs))
    /\ [][/\ Entered("_register_func") =>
                \A n \in NamesOf(funcs), f \in FilterValues, rf \in RawFilterValues,
                   p \in PermissionGroups, pr \in RaiseFlags :
                   RegisterFunc(n, f, rf, p, pr) => RefusedAsDuplicate
          /\ (Entered("register_default_func") /\ "default" \in NamesOf(funcs)) =>
                \A p \in PermissionGroups :
                   RegisterDefaultFunc(p) => RefusedAsDuplicate
          /\ Entered("register_user_func") =>
                \A n \in NamesOf(funcs), f \in FilterValues, rf \in RawFilterValues,
                   pr \in RaiseFlags :
                   RegisterUserFunc(n, f, rf, pr) => RefusedAsDuplicate
          /\ Entered("register_admin_func") =>
                \A n \in NamesOf(funcs), f \in FilterValues, rf \in RawFilterValues,
                   pr \in RaiseFlags :
                   RegisterAdminFunc(n, f, rf, pr) => RefusedAsDuplicate]_vars

\* C5 amended: the names in the Func table are always unique, and a
\* registration under a name already in the table fails and leaves the table
\* as it was: with the duplicate-name error whenever the call reaches the
\* primitive (_register_func itself, register_default_func, and
\* register_user_func / register_admin_func given a filter), and with the
\* no-filter error when register_user_func / register_admin_func is given
\* neither filter.
C5_UniqueNames ==
    /\ [](UniqueNames(funcs))
    /\ [][/\ Entered("_register_func") =>
                \A n \in NamesOf(funcs), f \in FilterValues, rf \in RawFilterValues,
                   p \in PermissionGroups, pr \in RaiseFlags :
                   RegisterFunc(n, f, rf, p, pr) => RefusedAsDuplicate
          /\ (Entered("register_default_func") /\ "default" \in NamesOf(funcs)) =>
                \A p \in PermissionGroups :
                   RegisterDefaultFunc(p) => RefusedAsDuplicate
          /\ Entered("register_user_func") =>
                \A n \in NamesOf(funcs), f \in FilterValues, rf \in RawFilterValues,
                   pr \in RaiseFlags :
                   RegisterUserFunc(n, f, rf, pr) =>
                      IF f = None /\ rf = None THEN RefusedNoFilter
                      ELSE RefusedAsDuplicate
          /\ Entered("register_admin_func") =>
                \A n \in NamesOf(funcs), f \in FilterValues, rf \in RawFilterValues,
                   pr \in RaiseFlags :
                   RegisterAdminFunc(n, f, rf, pr) =>
                      IF f = None /\ rf = None THEN RefusedNoFilter
                      ELSE RefusedAsDuplicate]_vars

\* a full table (every name taken) on which the latest registration was
\* refused as a duplicate
C5_Witness ==
    /\ NamesOf(funcs) = FuncNames
    /\ Len(funcs) = Cardinality(FuncNames)
    /\ lastReg.error = "ValueError: exists"

\* the registration call just made succeeded and appended exactly this Func
Appended(n, f, rf, p, pr) ==
    /\ funcs' = Append(funcs, Func(n, name, f, rf, p, pr))
    /\ lastReg'.error = None

\* C6 as stated: register_user_func / register_admin_func without any filter
\* fails with the validation error and adds nothing; with a filter or a raw
\* message filter it succeeds and adds an entry.
C6_FilterDecides ==
    [][/\ Entered("register_user_func") =>
             \A n \in FuncNames, f \in FilterValues, rf \in RawFilterValues,
                pr \in RaiseFlags :
                RegisterUserFunc(n, f, rf, pr) =>
                   IF f = None /\ rf = None THEN RefusedNoFilter
                   ELSE Appended(n, f, rf, USER, pr)
       /\ Entered("register_admin_func") =>
             \A n \in FuncNames, f \in FilterValues, rf \in RawFilterValues,
                pr \in RaiseFlags :
                RegisterAdminFunc(n, f, rf, pr) =>
                   IF f = None /\ rf = None THEN RefusedNoFilter
                   ELSE Appended(n, f, rf, ADMIN, pr)]_vars

\* C6 amended: without any filter the call fails with the validation error
\* and adds nothing; with a filter or a raw message filter it succeeds and
\* appends the entry if the name is not yet in the table, and is refused as a
\* duplicate if it is.
C6_FilterThenName ==
    [][/\ Entered("register_user_func") =>
             \A n \in FuncNames, f \in FilterValues, rf \in RawFilterValues,
                pr \in RaiseFlags :
                RegisterUserFunc(n, f, rf, pr) =>
                   IF f = None /\ rf = None THEN RefusedNoFilter
                   ELSE IF n \in NamesOf(funcs) THEN RefusedAsDuplicate
                   ELSE Appended(n, f, rf, USER, pr)
       /\ Entered("register_admin_func") =>
             \A n \in FuncNames, f \in FilterValues, rf \in RawFilterValues,
                pr \in RaiseFlags :
                RegisterAdminFunc(n, f, rf, pr) =>
                   IF f = None /\ rf = None THEN RefusedNoFilter
                   ELSE IF n \in NamesOf(funcs) THEN RefusedAsDuplicate
                   ELSE Appended(n, f, rf, ADMIN, pr)]_vars

\* register_admin_func has just succeeded with only a raw message filter, on
\* a table that also holds a Func register_user_func added with only a filter
C6_Witness ==
    /\ lastReg = [entry |-> "register_admin_func", error |-> None]
    /\ Len(funcs) = 2
    /\ funcs[1].permission = USER
    /\ funcs[1].filter # None /\ funcs[1].raw_message_filter = None
    /\ funcs[2].permission = ADMIN
    /\ funcs[2].filter = None /\ funcs[2].raw_message_filter # None

\* the data file cannot be loaded as it stands: missing, of a type the
\* loader does not know, or malformed
Unloadable == LoaderLoad(data_file, save_type, data).error \in LoadErrors

\* the data file exists and loads back to the empty tree
HoldsEmptyTree(file) ==
    /\ file.exists
    /\ WellFormed(file.text)
    /\ Parse(file.text) = EmptyTree

\* the errors the persistence part of __onload__ can end with
PersistenceErrors == LoadErrors \cup SaveErrors \cup {"OSError"}

\* C7: outside debug mode, an __onload__ that finds the data file unloadable
\* (and can write to the data path) does not raise: it leaves the in-memory
\* tree empty and a data file that loads back to the empty tree, and goes on
\* to the init hooks.
C7_RecoversToEmpty ==
    [][(Load /\ ~debug /\ writable /\ Unloadable) =>
          /\ result' = "pending"
          /\ pc' = "_init_"
          /\ data' = EmptyTree
          /\ HoldsEmptyTree(data_file')]_vars

\* the steps with which the recovery of __onload__ fails
RecoveryFailures == {"truncate.fail", "resave.fail", "reload.fail"}

\* C8: when the recovery of an __onload__ call fails, the call ends with an
\* error raised to its caller and neither _init_ nor on_load is started.
C8_FailedRecoveryPropagates ==
    (call = "__onload__" /\ Range(steps) \cap RecoveryFailures # {}) =>
        /\ pc = "idle"
        /\ result \in PersistenceErrors
        /\ Range(steps) \cap {"_init_.start", "on_load.start"} = {}

\* an __onload__ whose recovery truncated the file and then failed to save
C8_Witness ==
    /\ call = "__onload__"
    /\ ~debug
    /\ steps = <<"load.fail", "truncate.ok", "resave.fail">>
    /\ result = "FileTypeUnknownError"

\* C9: in debug mode an __onload__ that finds the data file unloadable does
\* not raise and leaves the in-memory tree as it was, and starts _init_; and
\* when _init_ returns, on_load is started.
C9_DebugLoadKeepsTree ==
    [][/\ (Load /\ debug /\ Unloadable) =>
             /\ result' = "pending"
             /\ data' = data
             /\ pc' = "_init_"
             /\ steps' = <<"load.fail", "_init_.start">>
       /\ (pc = "_init_" /\ pc' # "_init_" /\ result' # "HookError") =>
             /\ pc' = "on_load"
             /\ steps' = steps \o <<"_init_.end", "on_load.start">>]_vars

\* a debug-mode __onload__ found the file unloadable while the tree was not
\* empty, kept the tree, and has reached on_load after _init_
C9_Witness ==
    /\ debug
    /\ call = "__onload__"
    /\ steps = <<"load.fail", "_init_.start", "_init_.end", "on_load.start">>
    /\ pc = "on_load"
    /\ dataAtCall # EmptyTree
    /\ data = dataAtCall

\* C10: once an instance is constructed in debug mode, no step of __onload__
\* or __unload__ (nor any other step) changes the data file.
C10_DebugNeverWrites ==
    [][debug => data_file' = data_file]_vars

\* a debug-mode instance has been loaded and unloaded, its tree differs from
\* what the data file holds, and the data file is still missing
C10_Witness ==
    /\ debug
    /\ everLoaded
    /\ everUnloaded
    /\ call = "__unload__"
    /\ result = "ok"
    /\ data # EmptyTree
    /\ ~data_file.exists
    /\ writable
    /\ save_type \in KnownTypes

\* C11: outside debug mode, whenever the save at the end of __unload__ fails,
\* __unload__ ends by raising RuntimeError to its caller; it does not return
\* normally.
C11_SaveFailureRaises ==
    [][(/\ OnCloseReturn
        /\ ~debug
        /\ LoaderSave(data_file, save_type, data, writable).error # None) =>
          /\ result' = "RuntimeError"
          /\ pc' = "idle"
          /\ steps'[Len(steps')] = "save.fail"]_vars

\* an __unload__ outside debug mode, on a known file type, whose save could
\* not be written: the call ended with RuntimeError
C11_Witness ==
    /\ call = "__unload__"
    /\ ~debug
    /\ save_type \in KnownTypes
    /\ ~writable
    /\ steps = <<"unregister_handlers", "_close_.start", "_close_.end",
                 "on_close.start", "on_close.end", "save.fail">>
    /\ result = "RuntimeError"

\* C12: once an __unload__ of a loaded plugin has completed, none of the
\* timed tasks the plugin had added before the call is left in the shared
\* scheduler.
C12_TasksGoneAfterUnload ==
    (/\ everLoaded
     /\ call = "__unload__" /\ pc = "idle" /\ result = "ok"
     /\ ~schedInUnload) => scheduled = {}

\* C13: every constructor call either fails or leaves an instance whose name
\* and version are both non-empty; and a call on a class whose name or
\* version is empty or absent fails with the identity error (ValueError).
C13_IdentityNonEmpty ==
    /\ [](pc # "new" => (pc = "failed" \/ (~Missing(name) /\ ~Missing(version))))
    /\ [][(pc = "new" /\ (Missing(name) \/ Missing(version))) =>
             (pc' = "failed" /\ result' = "ValueError")]_vars

\* instance i takes a step of its own
PeerActs(i) ==
    \/ PeerLoad(i)
    \/ PeerUnload(i)
    \/ PeerCloseReturn(i)
    \/ PeerOnCloseReturn(i)
    \/ PeerRegister(i)
    \/ \E k \in Keys, v \in Vals : PeerSetData(i, k, v)

\* what belongs to instance j did not change in this step: its data tree,
\* its Func table and the file at its data path
PeerUntouched(j) ==
    /\ peer_data'[j] = peer_data[j]
    /\ peer_funcs'[j] = peer_funcs[j]
    /\ disk'[peer_path[j]] = disk[peer_path[j]]

\* the steps of one instance leave the other's tree, Func table and file as
\* they were
PeersLeaveEachOtherAlone ==
    [][\A i, j \in Instances :
          (i # j /\ peer_path[j] # None /\ PeerActs(i)) => PeerUntouched(j)]_vars

\* C14: two constructed instances named alike have distinct data paths, and
\* no load, unload, registration or data change of one changes the data tree,
\* the Func table or the persisted file of the other.
C14_Independent ==
    /\ [](\A i, j \in Instances :
             (i # j /\ peer_path[i] # None /\ peer_path[j] # None)
                => peer_path[i] # peer_path[j])
    /\ PeersLeaveEachOtherAlone

\* C15: a successful constructor call sets first_load to true exactly when,
\* just before it, the working directory or the data file did not exist; and
\* no later step (load, unload, registration, or any other) changes it.
C15_FirstLoad ==
    [][/\ (pc = "new" /\ pc' = "idle") =>
             first_load' = PyBool(work_path = "absent" \/ ~data_file.exists)
       /\ pc # "new" => first_load' = first_load]_vars

\* an instance constructed over a directory without a data file has been
\* loaded, has registered a Func and has been unloaded: the data file exists
\* by now and first_load is still true
C15_Witness ==
    /\ first_load = PyBool(TRUE)
    /\ everLoaded
    /\ everUnloaded
    /\ lastReg = [entry |-> "register_default_func", error |-> None]
    /\ work_path = "dir"
    /\ data_file.exists

\* the steps of the persistence part of __onload__, and of its hooks
PersistSteps ==
    {"load.ok", "load.fail", "truncate.ok", "truncate.fail", "resave.ok",
     "resave.fail", "reload.ok", "reload.fail"}
InitHookSteps == {"_init_.start", "_init_.end", "on_load.start", "on_load.end"}

\* the step sequences of a persistence part that has completed: a load that
\* worked, a failed load left alone (debug mode), or a failed load followed
\* by a whole recovery
CompletedLoads ==
    {<<"load.ok">>, <<"load.fail">>,
     <<"load.fail", "truncate.ok", "resave.ok", "reload.ok">>}

\* C16: in every __onload__ the persistence load, with its recovery if any,
\* has completed before _init_ starts, and _init_ has completed before
\* on_load starts.
C16_LoadOrder ==
    call = "__onload__" =>
        /\ steps # <<>> => steps[1] \in {"load.ok", "load.fail"}
        /\ \A i, j \in 1..Len(steps) :
              (steps[i] \in PersistSteps /\ steps[j] \in InitHookSteps) => i < j
        /\ \A j \in 1..Len(steps) :
              steps[j] = "_init_.start" => SubSeq(steps, 1, j - 1) \in CompletedLoads
        /\ Before("_init_.start", "_init_.end")
        /\ Before("_init_.end", "on_load.start")
        /\ Before("on_load.start", "on_load.end")
        /\ OnceEach(InitHookSteps)
        /\ (debug /\ "_init_.start" \in Range(steps)) =>
              Range(steps) \cap {"truncate.ok", "truncate.fail"} = {}

\* an __onload__ outside debug mode that found the file unloadable, recovered,
\* and then ran _init_ and on_load to the end
C16_Witness ==
    /\ call = "__onload__"
    /\ ~debug
    /\ result = "ok"
    /\ steps = <<"load.fail", "truncate.ok", "resave.ok", "reload.ok",
                 "_init_.start", "_init_.end", "on_load.start", "on_load.end">>

\* C17: whatever registration calls were made, the primitive _register_func
\* included, every entry of the Func table whose name is not "default" has a
\* filter or a raw message filter.
C17_FilterPresence ==
    \A i \in 1..Len(funcs) :
        funcs[i].name # "default" =>
            (funcs[i].filter # None \/ funcs[i].raw_message_filter # None)

\* C18: an exception raised by a hook leaves __onload__ / __unload__ uncaught
\* and nothing more of the call is executed: the call ends with the hook's
\* error as its last step, no later hook is started and no save is attempted,
\* and the raise itself changes neither the data file nor the Func table
\* (what __unload__ had unregistered stays unregistered).
C18_HookErrorPropagates ==
    /\ [](result = "HookError" =>
             /\ pc = "idle"
             /\ steps[Len(steps)] = "raise"
             /\ OnceEach({"raise"})
             /\ Range(steps) \cap SaveSteps = {}
             /\ "_close_.end" \notin Range(steps) => "on_close.start" \notin Range(steps)
             /\ "_init_.end" \notin Range(steps) => "on_load.start" \notin Range(steps))
    /\ [][HookRaise => (data_file' = data_file /\ funcs' = funcs)]_vars

\* _close_ raised in an __unload__ outside debug mode, on an instance that had
\* registered a Func and whose tree differs from what the data file holds:
\* on_close was not started, nothing was saved, the Func table is still empty
C18_Witness ==
    /\ call = "__unload__"
    /\ ~debug
    /\ result = "HookError"
    /\ steps = <<"unregister_handlers", "_close_.start", "raise">>
    /\ lastReg = [entry |-> "register_default_func", error |-> None]
    /\ funcs = <<>>
    /\ data_file.exists
    /\ WellFormed(data_file.text)
    /\ Parse(data_file.text) # data

\* C19: however two concurrent registrations interleave, the names in the
\* Func table stay unique, and of two first registrations of one name (one
\* from each thread) exactly one succeeds.
C19_LockGuardsFuncs ==
    /\ UniqueNames(funcs)
    /\ (/\ \A t \in Threads : racers[t].at = "out" /\ racers[t].calls = 1
        /\ \A t, u \in Threads : racers[t].name = racers[u].name)
          => Cardinality({t \in Threads : racers[t].outcome = "ok"}) = 1

\* C20: a constructor call that fails with the identity error (ValueError) or
\* the workspace error (PluginLoadError) leaves the working directory and the
\* data file as they were, and one that succeeds ends with the working
\* directory existing as a directory.
C20_FailedConstructionLeavesStorage ==
    [][/\ (pc = "new" /\ pc' = "failed") =>
             /\ result' \in {"ValueError", "PluginLoadError"}
             /\ work_path' = work_path
             /\ data_file' = data_file
       /\ (pc = "new" /\ pc' = "idle") => work_path' = "dir"]_vars

\* a constructor call on a class without a version has failed with the
\* identity error, and the working directory is still absent
C20_Witness ==
    /\ pc = "failed"
    /\ result = "ValueError"
    /\ ~Missing(name)
    /\ Missing(version)
    /\ work_path = "absent"
    /\ ~data_file.exists

====
